---- MODULE Spec2Model ----
(***************************************************************************)
(* A model of the vvector container (src/src/vvector.c, src/src/vvector.h) *)
(* as a state machine: one container handle, its two heap blocks (the      *)
(* handle indirection and the buffer), the buffer's in-band metadata, the  *)
(* optional embedded allocator descriptor and the element slots.  Every    *)
(* public function of vvector.h is one action.                             *)
(*                                                                         *)
(* Memory is modelled at slot granularity: the element region is a         *)
(* sequence of (capacity - header) / element_size slots; a slot holds a    *)
(* value of Values or Uninit.  Sizes are in bytes of an LP64 build.        *)
(*                                                                         *)
(* Undefined behaviour (a null or wild dereference, a read of a released   *)
(* block, a write outside the element region, a division by zero) is       *)
(* recorded in fault; when the outcome of the call is not determined by    *)
(* the C semantics the run enters pc = "undefined", in which nothing more  *)
(* is asserted about the program.                                          *)
(*                                                                         *)
(* A call with index -1 that the index check lets through reaches the      *)
(* element_size bytes in front of the element region, which are the tail   *)
(* of the header: inside the block, so the write is defined and the call   *)
(* returns.  The run then enters pc = "overwritten": the state shows the   *)
(* header as the call left it, and the model follows the container no      *)
(* further.                                                                *)
(***************************************************************************)
EXTENDS Integers, Sequences, FiniteSets, TLC

(* ------------------------------ bounds --------------------------------- *)

\* Largest number of live elements the callers of the model build up.
MaxLen == 2
\* Largest number of pages the callers of the model let the buffer reach.
MaxPages == 2
\* How far below zero the callers of the model drive the length field.
MaxUnder == 1
\* The non-zero element size (bytes) the model creates containers with.
MaxElemSize == 7

(* ------------------------- program constants --------------------------- *)

NR_ELEM_IN_PAGE == 32
VEC_ENOMEM == 0
VEC_ENOVEC == 1
VEC_EBADINDEX == 2
VEC_ENOVALUE == 3

\* Largest number of live elements a scripted caller builds up: enough to
\* fill a page and cross into the next one.
ScriptLen == MaxLen + NR_ELEM_IN_PAGE + 1

\* sizeof(struct vvectorMetadata_): three ptrdiff_t.
SizeofMetadata == 24
\* sizeof(struct vvectorAlloc): three function pointers and a void *.
SizeofAlloc == 32
\* sizeof(uint8_t *), the handle indirection.
SizeofPtr == 8

\* The null value pointer passed as 'value', and the content of a slot that
\* was never written.
NullValue == 0
Uninit == 0

NULL == "NULL"
lib_malloc == "vvector_lib_malloc"
lib_free == "vvector_lib_free"
lib_realloc == "vvector_lib_realloc"

(* ------------------------------- state --------------------------------- *)

VARIABLES
    vec,        \* the caller's handle: NULL or "vec" (address of the handle block)
    hnd,        \* the handle block: [st, size]
    bufptr,     \* *vec, the content of the handle block: NULL or "buf"
    buf,        \* the buffer block: [st, size]
    meta,       \* the buffer's struct vvectorMetadata_: [capacity, length, element_size]
    alloc,      \* the struct vvectorAlloc copied into the buffer, or NoAlloc
    data,       \* the element region, one entry per slot
    op,         \* the last call: [name, index, value, n]
    res,        \* what the last call returned: [t, v]
    opcalls,    \* the allocator calls the last call made, in order
    fault,      \* the memory/arithmetic fault the last call committed, or "none"
    pc,         \* "run", "undefined" after undefined behaviour, or
                \* "overwritten" after a call that wrote into the header
    phase,      \* position of the scripted caller (scenario specifications only)
    todo,       \* the values or arguments the scripted caller works through
    cnt,        \* the scripted caller's loop counter
    out         \* the values the scripted caller has read

mvars == <<vec, hnd, bufptr, buf, meta, alloc, data, op, res, opcalls, fault, pc>>
svars == <<phase, todo, cnt, out>>
vars == <<vec, hnd, bufptr, buf, meta, alloc, data, op, res, opcalls, fault, pc,
          phase, todo, cnt, out>>

NoAlloc == [malloc_fn |-> NULL, free_fn |-> NULL, realloc_fn |-> NULL, ctx |-> NULL]
NoBlock == [st |-> "none", size |-> 0]
NoMeta == [capacity |-> 0, length |-> 0, element_size |-> 0]

\* Results: an int status, a pointer to an element slot, a null pointer, a
\* handle, or nothing (the call did not return).
IntRes(n) == [t |-> "int", v |-> n]
SlotRes(i) == [t |-> "slot", v |-> i]
NullRes == [t |-> "null", v |-> 0]
HandleRes == [t |-> "handle", v |-> 0]
NoRes == [t |-> "none", v |-> 0]

Call(name, index, value, n) == [name |-> name, index |-> index, value |-> value, n |-> n]

\* One allocator call: which function, on which block, with which sizes and
\* context, and whether it returned non-null.
ACall(fn, blk, size, old, ctx, ok) ==
    [fn |-> fn, blk |-> blk, size |-> size, old |-> old, ctx |-> ctx, ok |-> ok]

(* ------------------------------ helpers -------------------------------- *)

\* vec_get_element_size: the absolute value of the stored field.
vec_get_element_size(m) ==
    IF m.element_size < 0 THEN 0 - m.element_size ELSE m.element_size

vec_get_capacity(m) == m.capacity

\* C's truncating division and remainder (len may be negative).
CDiv(a, b) == IF a >= 0 THEN a \div b ELSE 0 - ((0 - a) \div b)
CRem(a, b) == a - b * CDiv(a, b)

\* A page count that rounds down.
length_to_pages_floor(len, nr_elem_in_page) == CDiv(len, nr_elem_in_page)

length_to_pages(len, nr_elem_in_page) ==
    IF CRem(len, nr_elem_in_page) = 0
    THEN CDiv(len, nr_elem_in_page)
    ELSE CDiv(len, nr_elem_in_page) + 1

has_custom_alloc(m) == m.element_size < 0

getLengthOfMetadata(m) ==
    IF m.element_size < 0 THEN SizeofMetadata + SizeofAlloc ELSE SizeofMetadata

\* Defined only for a non-zero element size (the C code divides by it).
nr_pages_available(m) ==
    CDiv(CDiv(vec_get_capacity(m) - getLengthOfMetadata(m), vec_get_element_size(m)),
         NR_ELEM_IN_PAGE)

nr_pages_used(m) == length_to_pages(m.length, NR_ELEM_IN_PAGE)

has_empty_pages(m) == nr_pages_available(m) - nr_pages_used(m) # 0

\* is_full reporting a buffer as full only once it is already too small.
is_full_late(m) ==
    LET nr_of_bytes_of_metadata ==
            IF has_custom_alloc(m) THEN SizeofAlloc + SizeofMetadata ELSE SizeofMetadata
    IN  vec_get_capacity(m) < m.length * vec_get_element_size(m) + nr_of_bytes_of_metadata

is_full(m) ==
    LET nr_of_bytes_of_metadata ==
            IF has_custom_alloc(m) THEN SizeofAlloc + SizeofMetadata ELSE SizeofMetadata
    IN  vec_get_capacity(m) = m.length * vec_get_element_size(m) + nr_of_bytes_of_metadata

\* An index check that lets index = length through.
index_is_invalid_above(m, index) == index > m.length

index_is_invalid(m, index) == index >= m.length

\* get_alloc: the embedded descriptor, or NoAlloc (a null pointer) without one.
get_alloc(m, a) == IF has_custom_alloc(m) THEN a ELSE NoAlloc

get_malloc(m, a) == IF ~has_custom_alloc(m) THEN lib_malloc ELSE get_alloc(m, a).malloc_fn
get_free(m, a) == IF ~has_custom_alloc(m) THEN lib_free ELSE get_alloc(m, a).free_fn
get_realloc(m, a) == IF ~has_custom_alloc(m) THEN lib_realloc ELSE get_alloc(m, a).realloc_fn

\* The ctx the growth, shrink and free paths pass to the allocator.
get_ctx(m, a) == IF has_custom_alloc(m) THEN get_alloc(m, a).ctx ELSE NULL

(* ---------------------- the element region (slots) --------------------- *)

\* Number of slots a buffer of 'bytes' element bytes holds.
Slots(bytes, es) == IF es > 0 /\ bytes > 0 THEN bytes \div es ELSE 0

\* The element region after the block was reallocated to hold n slots: the
\* common prefix is kept, new slots are uninitialised.
Resize(d, n) == [i \in 1..n |-> IF i <= Len(d) THEN d[i] ELSE Uninit]

\* A byte range of the element region, given in slots, lies inside the region
\* (an empty range touches nothing).
InRegion(d, first, n) == n <= 0 \/ (first >= 0 /\ first + n <= Len(d))

\* A memmove that moves one slot too few.
memmove_short(d, dst, src, n) ==
    [i \in 1..Len(d) |->
        IF i - 1 >= dst /\ i - 1 < dst + n - 1 THEN d[(i - 1) - dst + src + 1] ELSE d[i]]

\* memmove of n slots from slot src to slot dst, both ranges inside the region.
memmove(d, dst, src, n) ==
    [i \in 1..Len(d) |->
        IF i - 1 >= dst /\ i - 1 < dst + n THEN d[(i - 1) - dst + src + 1] ELSE d[i]]

\* Slot index of the element region lies in the header: it is the slot just
\* in front of the region, and the element is no wider than the header's last
\* field (the callers of the model pass no index below -1).
InHeaderTail(m, index) ==
    /\ index = 0 - 1
    /\ vec_get_element_size(m) > 0
    /\ vec_get_element_size(m) <= SizeofPtr

\* The unit of the header's last field (8 bytes, little-endian) from which
\* the bytes of slot -1 count.
TailUnit(m) == 2 ^ (8 * (SizeofPtr - vec_get_element_size(m)))

\* What slot -1 holds, read as an element: without a descriptor the upper
\* bytes of the element_size field; with one, the upper bytes of ctx, which
\* are address bits and read here as an unwritten slot does.
HeaderTailValue(m) ==
    IF has_custom_alloc(m) THEN Uninit ELSE m.element_size \div TailUnit(m)

\* The metadata after the bytes of value were copied to slot -1: without a
\* descriptor they replace the upper bytes of the element_size field.
HeaderTailMeta(m, value) ==
    IF has_custom_alloc(m) THEN m
    ELSE [m EXCEPT !.element_size = (@ % TailUnit(m)) + value * TailUnit(m)]

\* The descriptor after the bytes of value were copied to slot -1: with a
\* descriptor they replace the upper bytes of its ctx pointer.
HeaderTailAlloc(m, a) ==
    IF has_custom_alloc(m) THEN [a EXCEPT !.ctx = "overwritten_ctx"] ELSE a

\* Slot -1 of a container without descriptor whose elements are as wide as
\* struct vvectorMetadata_: the slot is the metadata.
InMetadata(m, index) ==
    /\ index = 0 - 1
    /\ ~has_custom_alloc(m)
    /\ vec_get_element_size(m) = SizeofMetadata

\* The metadata after the bytes of value (a little-endian number, as in
\* HeaderTailMeta) were copied over it: its first field holds the number, the
\* other two its zero upper bytes.
MetadataOf(value) == [capacity |-> value, length |-> 0, element_size |-> 0]

\* A copy of the value that copies nothing.
memcpy_value_none(d, dst, value) == d

\* A copy of the value that lands one slot too far.
memcpy_value_next(d, dst, value) == [d EXCEPT ![dst + 2] = value]

\* memcpy of the caller's value into slot dst.
memcpy_value(d, dst, value) == [d EXCEPT ![dst + 1] = value]

(* ------------------------- the handle check ---------------------------- *)

\* "if (!vec || !*vec)" is false: the handle block is live and holds the buffer.
IsValid == vec # NULL /\ hnd.st = "live" /\ bufptr # NULL

\* Bytes of element storage the metadata m describes, in slots.
Region(m) == Slots(vec_get_capacity(m) - getLengthOfMetadata(m), vec_get_element_size(m))

\* Pages the metadata m describes (0 for zero-size elements).
Pages(m) == Region(m) \div NR_ELEM_IN_PAGE

Return(o, r, calls, f) ==
    /\ op' = o
    /\ res' = r
    /\ opcalls' = calls
    /\ fault' = f
    /\ pc' = "run"

Undefined(o, calls, f) ==
    /\ op' = o
    /\ res' = NoRes
    /\ opcalls' = calls
    /\ fault' = f
    /\ pc' = "undefined"

\* The call returned r after writing into the header.
Overwritten(o, r, calls) ==
    /\ op' = o
    /\ res' = r
    /\ opcalls' = calls
    /\ fault' = "header"
    /\ pc' = "overwritten"

\* "if (!vec || !*vec) return r;" taken.  With vec null, or *vec null in a
\* live handle block, the call returns r.  After vvectorFree the caller's
\* vec still points at the released handle block, and *vec is a read of
\* released memory: it may still read as null (the call returns r), or as
\* anything else (the call goes on through a wild pointer).
BadHandle(o, r) ==
    /\ ~IsValid
    /\ UNCHANGED <<vec, hnd, bufptr, buf, meta, alloc, data>>
    /\ IF vec = NULL \/ hnd.st = "live"
       THEN Return(o, r, <<>>, "none")
       ELSE \/ Return(o, r, <<>>, "uaf")
            \/ Undefined(o, <<>>, "uaf")

(* --------------------------- create / destroy -------------------------- *)

\* The descriptor as vec_new_ normalises it.
Normalised(allocator) ==
    [malloc_fn |-> IF allocator.malloc_fn # NULL THEN allocator.malloc_fn ELSE lib_malloc,
     free_fn |-> IF allocator.free_fn # NULL THEN allocator.free_fn ELSE lib_free,
     realloc_fn |-> IF allocator.realloc_fn # NULL THEN allocator.realloc_fn ELSE lib_realloc,
     ctx |-> allocator.ctx]

\* vec_new_(sizeof_type, allocator); given says whether allocator is non-null,
\* ok1 and ok2 whether the buffer and the handle allocation succeed.
vec_new_(sizeof_type, given, allocator, ok1, ok2) ==
    LET o == Call("create", 0, 0, sizeof_type)
        a == IF given THEN Normalised(allocator) ELSE NoAlloc
        m == [capacity |-> IF given THEN SizeofMetadata + SizeofAlloc ELSE SizeofMetadata,
              length |-> 0,
              element_size |-> IF given THEN 0 - sizeof_type ELSE sizeof_type]
        fn == IF given THEN a.malloc_fn ELSE lib_malloc
        ctx == IF given THEN a.ctx ELSE NULL
        c1 == ACall(fn, "buf", m.capacity, 0, ctx, ok1)
        c2 == ACall(fn, "hnd", SizeofPtr, 0, ctx, ok2)
    IN
    /\ pc = "run"
    /\ vec = NULL
    /\ hnd.st = "none"
    /\ buf.st = "none"
    /\ IF sizeof_type < 0
       THEN /\ Return(o, NullRes, <<>>, "none")
            /\ UNCHANGED <<vec, hnd, bufptr, buf, meta, alloc, data>>
       ELSE IF ~ok1
       THEN /\ Return(o, NullRes, <<c1>>, "none")
            /\ UNCHANGED <<vec, hnd, bufptr, buf, meta, alloc, data>>
       ELSE /\ buf' = [st |-> "live", size |-> m.capacity]
            /\ meta' = m
            /\ alloc' = a
            /\ data' = <<>>
            /\ IF ~ok2
               THEN /\ Return(o, NullRes, <<c1, c2>>, "none")
                    /\ UNCHANGED <<vec, hnd, bufptr>>
               ELSE /\ hnd' = [st |-> "live", size |-> SizeofPtr]
                    /\ bufptr' = "buf"
                    /\ vec' = "vec"
                    /\ Return(o, HandleRes, <<c1, c2>>, "none")

vvectorFree ==
    LET o == Call("destroy", 0, 0, 0)
        vec_capacity == vec_get_capacity(meta)
        a == get_alloc(meta, alloc)
        ctx == IF has_custom_alloc(meta) THEN a.ctx ELSE NULL
        free_fn == get_free(meta, alloc)
    IN
    /\ pc = "run"
    /\ \/ BadHandle(o, IntRes(VEC_ENOVEC))
       \/ /\ IsValid
          /\ buf' = [buf EXCEPT !.st = "freed"]
          /\ bufptr' = NULL
          /\ hnd' = [hnd EXCEPT !.st = "freed"]
          /\ UNCHANGED <<vec, meta, alloc, data>>
          /\ Return(o, IntRes(0),
                    <<ACall(free_fn, "buf", vec_capacity, vec_capacity, ctx, TRUE),
                      ACall(free_fn, "hnd", SizeofPtr, SizeofPtr, ctx, TRUE)>>,
                    "none")

(* ------------------------------ logic control -------------------------- *)

vvectorGetLength ==
    /\ pc = "run"
    /\ \/ BadHandle(Call("length", 0, 0, 0), IntRes(0))
       \/ /\ IsValid
          /\ UNCHANGED <<vec, hnd, bufptr, buf, meta, alloc, data>>
          /\ Return(Call("length", 0, 0, 0), IntRes(meta.length), <<>>, "none")

vvectorIsEmpty ==
    /\ pc = "run"
    /\ \/ BadHandle(Call("is_empty", 0, 0, 0), IntRes(1))
       \/ /\ IsValid
          /\ UNCHANGED <<vec, hnd, bufptr, buf, meta, alloc, data>>
          /\ Return(Call("is_empty", 0, 0, 0),
                    IntRes(IF meta.length = 0 THEN 1 ELSE 0), <<>>, "none")

(* --------------------------- memory functions -------------------------- *)

\* add_page_if_needed on metadata m: what it returns, the metadata it leaves,
\* the allocator call it made and the value it stored in *vec.  ok says
\* whether the reallocation, if one is made, succeeds.
add_page_if_needed(m, a, ok) ==
    IF ~is_full(m)
    THEN [ret |-> 0, meta |-> m, calls |-> <<>>, ptr |-> "buf"]
    ELSE LET vec_capacity == vec_get_capacity(m)
             vec_element_size == vec_get_element_size(m)
             ctx == IF has_custom_alloc(m) THEN get_alloc(m, a).ctx ELSE NULL
             new == vec_capacity + NR_ELEM_IN_PAGE * vec_element_size
             c == ACall(get_realloc(m, a), "buf", new, vec_capacity, ctx, ok)
         IN  IF ok
             THEN [ret |-> 0, meta |-> [m EXCEPT !.capacity = new], calls |-> <<c>>,
                   ptr |-> "buf"]
             ELSE [ret |-> 1, meta |-> m, calls |-> <<c>>, ptr |-> NULL]

\* The buffer block and element region after a successful reallocation that
\* left metadata m.
Reallocated(m) ==
    /\ meta' = m
    /\ buf' = [buf EXCEPT !.size = m.capacity]
    /\ data' = Resize(data, Region(m))

vvectorShrinkToFit(ok) ==
    LET o == Call("shrink_to_fit", 0, 0, 0)
        vec_capacity == vec_get_capacity(meta)
        vec_element_size == vec_get_element_size(meta)
        new_size == vec_capacity
                    - (nr_pages_available(meta) - nr_pages_used(meta))
                      * vec_element_size * NR_ELEM_IN_PAGE
        ctx == IF has_custom_alloc(meta) THEN get_alloc(meta, alloc).ctx ELSE NULL
        c == ACall(get_realloc(meta, alloc), "buf", new_size, vec_capacity, ctx, ok)
    IN
    /\ pc = "run"
    /\ \/ BadHandle(o, IntRes(VEC_ENOVEC))
       \/ /\ IsValid
          /\ UNCHANGED <<vec, hnd, alloc>>
          /\ IF vec_element_size = 0
             THEN \* nr_pages_available divides by the element size
                  /\ Undefined(o, <<>>, "div0")
                  /\ UNCHANGED <<bufptr, buf, meta, data>>
             ELSE IF ~has_empty_pages(meta)
             THEN /\ Return(o, IntRes(0), <<>>, "none")
                  /\ UNCHANGED <<bufptr, buf, meta, data>>
             ELSE IF ~ok
             THEN /\ bufptr' = NULL
                  /\ Return(o, IntRes(1), <<c>>, "none")
                  /\ UNCHANGED <<buf, meta, data>>
             ELSE /\ Pages([meta EXCEPT !.capacity = new_size]) <= MaxPages
                  /\ Reallocated([meta EXCEPT !.capacity = new_size])
                  /\ Return(o, IntRes(0), <<c>>, "none")
                  /\ UNCHANGED bufptr

vvectorReserve(n, ok) ==
    LET o == Call("reserve", 0, 0, n)
        vec_capacity == vec_get_capacity(meta)
        vec_element_size == vec_get_element_size(meta)
        ctx == IF has_custom_alloc(meta) THEN get_alloc(meta, alloc).ctx ELSE NULL
        new_capacity == length_to_pages(n, NR_ELEM_IN_PAGE) * vec_element_size
                        * NR_ELEM_IN_PAGE + vec_capacity
        c == ACall(get_realloc(meta, alloc), "buf", new_capacity, vec_capacity, ctx, ok)
    IN
    /\ pc = "run"
    /\ \/ BadHandle(o, IntRes(VEC_ENOVEC))
       \/ /\ IsValid
          /\ UNCHANGED <<vec, hnd, alloc>>
          /\ IF n < 0
             THEN /\ Return(o, IntRes(1), <<>>, "none")
                  /\ UNCHANGED <<bufptr, buf, meta, data>>
             ELSE IF ~ok
             THEN /\ bufptr' = NULL
                  /\ Return(o, IntRes(VEC_ENOVEC), <<c>>, "none")
                  /\ UNCHANGED <<buf, meta, data>>
             ELSE /\ Pages([meta EXCEPT !.capacity = new_capacity]) <= MaxPages
                  /\ Reallocated([meta EXCEPT !.capacity = new_capacity])
                  /\ Return(o, IntRes(0), <<c>>, "none")
                  /\ UNCHANGED bufptr

(* ------------------------------ get functions -------------------------- *)

\* A get that returns the address of the slot behind the one asked for.
GetAt_next(m, index) == IF index_is_invalid(m, index) THEN NullRes ELSE SlotRes(index + 1)

\* What vvectorGetAt returns on a valid handle.
GetAt(m, index) == IF index_is_invalid(m, index) THEN NullRes ELSE SlotRes(index)

vvectorGetAt(index) ==
    /\ pc = "run"
    /\ \/ BadHandle(Call("get", index, 0, 0), NullRes)
       \/ /\ IsValid
          /\ UNCHANGED <<vec, hnd, bufptr, buf, meta, alloc, data>>
          /\ Return(Call("get", index, 0, 0), GetAt(meta, index), <<>>, "none")

\* A get_back that asks for length - 1 without testing for emptiness first.
vvectorGetBack_unchecked ==
    /\ pc = "run"
    /\ \/ BadHandle(Call("get_back", 0, 0, 0), NullRes)
       \/ /\ IsValid
          /\ UNCHANGED <<vec, hnd, bufptr, buf, meta, alloc, data>>
          /\ Return(Call("get_back", 0, 0, 0), GetAt(meta, meta.length - 1),
                    <<>>, "none")

vvectorGetBack ==
    /\ pc = "run"
    /\ \/ BadHandle(Call("get_back", 0, 0, 0), NullRes)
       \/ /\ IsValid
          /\ UNCHANGED <<vec, hnd, bufptr, buf, meta, alloc, data>>
          /\ Return(Call("get_back", 0, 0, 0),
                    IF meta.length = 0 THEN NullRes ELSE GetAt(meta, meta.length - 1),
                    <<>>, "none")

vvectorGetFront ==
    /\ pc = "run"
    /\ \/ BadHandle(Call("get_front", 0, 0, 0), NullRes)
       \/ /\ IsValid
          /\ UNCHANGED <<vec, hnd, bufptr, buf, meta, alloc, data>>
          /\ Return(Call("get_front", 0, 0, 0),
                    IF meta.length = 0 THEN NullRes ELSE GetAt(meta, 0),
                    <<>>, "none")

(* ------------------------- add & write functions ---------------------- *)

\* The length up to which the callers of the model insert.
LenBound == IF phase = "free" THEN MaxLen ELSE ScriptLen

vvectorWriteValueAt(index, value) ==
    LET o == Call("write_at", index, value, 0)
        vec_element_size == vec_get_element_size(meta)
    IN
    /\ pc = "run"
    /\ \/ BadHandle(o, IntRes(VEC_ENOVEC))
       \/ /\ IsValid
          /\ UNCHANGED <<vec, hnd, bufptr, buf>>
          /\ IF index_is_invalid(meta, index)
             THEN /\ Return(o, IntRes(VEC_EBADINDEX), <<>>, "none")
                  /\ UNCHANGED <<meta, alloc, data>>
             ELSE IF value = NullValue
             THEN /\ Return(o, IntRes(VEC_ENOVALUE), <<>>, "none")
                  /\ UNCHANGED <<meta, alloc, data>>
             ELSE IF vec_element_size = 0
             THEN /\ Return(o, IntRes(0), <<>>, "none")
                  /\ UNCHANGED <<meta, alloc, data>>
             ELSE IF InHeaderTail(meta, index)
             THEN /\ Overwritten(o, IntRes(0), <<>>)
                  /\ meta' = HeaderTailMeta(meta, value)
                  /\ alloc' = HeaderTailAlloc(meta, alloc)
                  /\ UNCHANGED data
             ELSE IF InMetadata(meta, index)
             THEN \* the call returns 0 and the calls that follow run on the
                  \* fields the value left
                  /\ Return(o, IntRes(0), <<>>, "header")
                  /\ meta' = MetadataOf(value)
                  /\ UNCHANGED <<alloc, data>>
             ELSE IF ~InRegion(data, index, 1)
             THEN Undefined(o, <<>>, "oob") /\ UNCHANGED <<meta, alloc, data>>
             ELSE /\ data' = memcpy_value(data, index, value)
                  /\ Return(o, IntRes(0), <<>>, "none")
                  /\ UNCHANGED <<meta, alloc>>

\* The body of vvectorInsertValueAt after its handle check; o is the call it
\* is reported as (vvectorPushBack runs the same body).
InsertValueAt(o, index, value, ok) ==
    LET g == add_page_if_needed(meta, alloc, ok)
        m == g.meta
        d == Resize(data, Region(m))
        vec_length == m.length
        vec_element_size == vec_get_element_size(m)
    IN
    /\ UNCHANGED <<vec, hnd>>
    /\ IF g.ptr = NULL
       THEN \* *vec is null now: vvectorGetLength gives 0, then
            \* vec_get_element_size reads the metadata through the null *vec
            /\ bufptr' = NULL
            /\ Undefined(o, g.calls, "nullderef")
            /\ UNCHANGED <<buf, meta, alloc, data>>
       ELSE /\ UNCHANGED bufptr
            /\ Pages(m) <= MaxPages
            /\ buf' = [buf EXCEPT !.size = m.capacity]
            /\ IF index > vec_length
               THEN /\ Return(o, IntRes(VEC_EBADINDEX), g.calls, "none")
                    /\ meta' = m
                    /\ data' = d
                    /\ UNCHANGED alloc
               ELSE IF value = NullValue
               THEN /\ Return(o, IntRes(VEC_ENOVALUE), g.calls, "none")
                    /\ meta' = m
                    /\ data' = d
                    /\ UNCHANGED alloc
               ELSE IF vec_element_size = 0
               THEN /\ vec_length < LenBound
                    /\ Return(o, IntRes(0), g.calls, "none")
                    /\ meta' = [m EXCEPT !.length = @ + 1]
                    /\ data' = d
                    /\ UNCHANGED alloc
               ELSE IF InHeaderTail(m, index) /\ InRegion(d, 0, vec_length + 1)
               THEN \* slots -1 .. length-1 move up by one, then the value
                    \* goes to slot -1
                    /\ Overwritten(o, IntRes(0), g.calls)
                    /\ meta' = [HeaderTailMeta(m, value) EXCEPT !.length = @ + 1]
                    /\ alloc' = HeaderTailAlloc(m, alloc)
                    /\ data' = IF vec_length + 1 <= 0 THEN d
                               ELSE memcpy_value(memmove(d, 1, 0, vec_length), 0,
                                                 HeaderTailValue(m))
               ELSE IF ~(/\ InRegion(d, index, vec_length - index)
                         /\ InRegion(d, index + 1, vec_length - index)
                         /\ InRegion(d, index, 1))
               THEN /\ Undefined(o, g.calls, "oob")
                    /\ meta' = m
                    /\ data' = d
                    /\ UNCHANGED alloc
               ELSE /\ vec_length < LenBound
                    /\ Return(o, IntRes(0), g.calls, "none")
                    /\ UNCHANGED alloc
                    /\ meta' = [m EXCEPT !.length = @ + 1]
                    /\ data' = memcpy_value(
                                   memmove(d, index + 1, index, vec_length - index),
                                   index, value)

vvectorInsertValueAt(index, value, ok) ==
    /\ pc = "run"
    /\ \/ BadHandle(Call("insert_at", index, value, 0), IntRes(VEC_ENOVEC))
       \/ /\ IsValid
          /\ InsertValueAt(Call("insert_at", index, value, 0), index, value, ok)

vvectorPushBack(value, ok) ==
    /\ pc = "run"
    /\ \/ BadHandle(Call("push_back", 0, value, 0), IntRes(VEC_ENOVEC))
       \/ /\ IsValid
          /\ IF value = NullValue
             THEN /\ Return(Call("push_back", 0, value, 0), IntRes(VEC_ENOVALUE),
                            <<>>, "none")
                  /\ UNCHANGED <<vec, hnd, bufptr, buf, meta, alloc, data>>
             ELSE InsertValueAt(Call("push_back", 0, value, 0), meta.length, value, ok)

(* ------------------------- remove/delete functions --------------------- *)

\* The body of vvectorRemoveAt after its handle check.
RemoveAt(o, index) ==
    LET vec_length == meta.length
        vec_element_size == vec_get_element_size(meta)
        n == vec_length - index - 1
    IN
    /\ UNCHANGED <<vec, hnd, bufptr, buf>>
    /\ IF index_is_invalid(meta, index)
       THEN /\ Return(o, IntRes(VEC_EBADINDEX), <<>>, "none")
            /\ UNCHANGED <<meta, alloc, data>>
       ELSE IF vec_element_size = 0
       THEN /\ vec_length - 1 >= 0 - MaxUnder
            /\ Return(o, IntRes(0), <<>>, "none")
            /\ meta' = [meta EXCEPT !.length = @ - 1]
            /\ UNCHANGED <<alloc, data>>
       ELSE IF n > 0 /\ InHeaderTail(meta, index) /\ InRegion(data, 0, n)
       THEN \* slots 0 .. length-1 move down by one: slot 0 goes to slot -1
            /\ Overwritten(o, IntRes(0), <<>>)
            /\ meta' = [HeaderTailMeta(meta, data[1]) EXCEPT !.length = @ - 1]
            /\ alloc' = HeaderTailAlloc(meta, alloc)
            /\ data' = memmove(data, 0, 1, n - 1)
       ELSE IF ~(InRegion(data, index, n) /\ InRegion(data, index + 1, n))
       THEN Undefined(o, <<>>, "oob") /\ UNCHANGED <<meta, alloc, data>>
       ELSE /\ vec_length - 1 >= 0 - MaxUnder
            /\ Return(o, IntRes(0), <<>>, "none")
            /\ meta' = [meta EXCEPT !.length = @ - 1]
            /\ data' = memmove(data, index, index + 1, n)
            /\ UNCHANGED alloc

vvectorRemoveAt(index) ==
    /\ pc = "run"
    /\ \/ BadHandle(Call("remove_at", index, 0, 0), IntRes(VEC_ENOVEC))
       \/ /\ IsValid
          /\ RemoveAt(Call("remove_at", index, 0, 0), index)

vvectorRemoveBack ==
    /\ pc = "run"
    /\ \/ BadHandle(Call("remove_back", 0, 0, 0), IntRes(VEC_ENOVEC))
       \/ /\ IsValid
          /\ IF meta.length = 0
             THEN /\ Return(Call("remove_back", 0, 0, 0), IntRes(2), <<>>, "none")
                  /\ UNCHANGED <<vec, hnd, bufptr, buf, meta, alloc, data>>
             ELSE RemoveAt(Call("remove_back", 0, 0, 0), meta.length - 1)

(* --------------------------- the specification ------------------------- *)

\* Arguments the callers of the model pass.
SizeArgs == {0 - 1, 0, MaxElemSize}
\* Two distinguishable element values.
Values == {1, 2}
ValueArgs == {NullValue} \cup Values
\* Indexes from one below zero to one beyond the length.
IndexArgs == (0 - 1)..(meta.length + 1)
\* Outcomes of the reallocation an insertion makes when the buffer is full.
GrowthOutcomes == IF is_full(meta) THEN BOOLEAN ELSE {TRUE}
CountArgs == {0 - 1, 0, 1, NR_ELEM_IN_PAGE, NR_ELEM_IN_PAGE + 1}
FnArgs(f) == {NULL, f}
\* The descriptors passed to vec_new_: all three functions supplied, or
\* exactly one of them left null; the ctx is non-null.
AllocArgs ==
    {a \in [malloc_fn : FnArgs("user_malloc"), free_fn : FnArgs("user_free"),
            realloc_fn : FnArgs("user_realloc"), ctx : {"user_ctx"}] :
        Cardinality({f \in {a.malloc_fn, a.free_fn, a.realloc_fn} : f = NULL}) <= 1
        /\ Cardinality({a.malloc_fn, a.free_fn, a.realloc_fn}) = 3}

Init ==
    /\ vec = NULL
    /\ hnd = NoBlock
    /\ bufptr = NULL
    /\ buf = NoBlock
    /\ meta = NoMeta
    /\ alloc = NoAlloc
    /\ data = <<>>
    /\ op = Call("none", 0, 0, 0)
    /\ res = NoRes
    /\ opcalls = <<>>
    /\ fault = "none"
    /\ pc = "run"
    /\ phase = "free"
    /\ todo = <<>>
    /\ cnt = 0
    /\ out = <<>>

New ==
    /\ \E s \in SizeArgs, ok1 \in BOOLEAN, ok2 \in BOOLEAN :
          \/ vec_new_(s, FALSE, NoAlloc, ok1, ok2)
          \/ \E a \in AllocArgs : vec_new_(s, TRUE, a, ok1, ok2)
    /\ UNCHANGED svars

Free == vvectorFree /\ UNCHANGED svars
ShrinkToFit == (\E ok \in BOOLEAN : vvectorShrinkToFit(ok)) /\ UNCHANGED svars
Reserve == (\E n \in CountArgs, ok \in BOOLEAN : vvectorReserve(n, ok)) /\ UNCHANGED svars
GetLength == vvectorGetLength /\ UNCHANGED svars
IsEmpty == vvectorIsEmpty /\ UNCHANGED svars
Get == (\E i \in IndexArgs : vvectorGetAt(i)) /\ UNCHANGED svars
GetBack == vvectorGetBack /\ UNCHANGED svars
GetFront == vvectorGetFront /\ UNCHANGED svars
WriteValueAt ==
    (\E i \in IndexArgs, v \in ValueArgs : vvectorWriteValueAt(i, v)) /\ UNCHANGED svars
InsertAt ==
    (\E i \in IndexArgs, v \in ValueArgs, ok \in GrowthOutcomes :
        vvectorInsertValueAt(i, v, ok))
    /\ UNCHANGED svars
PushBack ==
    (\E v \in ValueArgs, ok \in GrowthOutcomes : vvectorPushBack(v, ok))
    /\ UNCHANGED svars
RemoveAtIndex == (\E i \in IndexArgs : vvectorRemoveAt(i)) /\ UNCHANGED svars
RemoveBack == vvectorRemoveBack /\ UNCHANGED svars

Next ==
    \/ New
    \/ Free
    \/ ShrinkToFit
    \/ Reserve
    \/ GetLength
    \/ IsEmpty
    \/ Get
    \/ GetBack
    \/ GetFront
    \/ WriteValueAt
    \/ InsertAt
    \/ PushBack
    \/ RemoveAtIndex
    \/ RemoveBack

Spec == Init /\ [][Next]_vars

(* ----------------------- vocabulary of the claims ----------------------- *)

\* The header size and the element size read off the stored fields, the
\* capacity in elements and in pages, and the ceiling of a quotient, written
\* out independently of the helpers above.
HeaderSize == IF meta.element_size < 0 THEN 56 ELSE 24
ElementSize == IF meta.element_size < 0 THEN 0 - meta.element_size ELSE meta.element_size
Ceil(n, d) == 0 - ((0 - n) \div d)
CapacityInElements(m, hdr, es) == (m.capacity - hdr) \div es
\* The live elements: the first length slots.
Live(d, len) == [i \in 1..len |-> d[i]]

UserFns == {"user_malloc", "user_free", "user_realloc"}
LibFns == {lib_malloc, lib_free, lib_realloc}
Mutators == {"insert_at", "push_back", "write_at", "remove_at", "remove_back",
             "reserve", "shrink_to_fit"}

\* The last call returned an int status other than success.
Failed(r) == r.t = "int" /\ r.v # 0
Ok(r) == r = IntRes(0)

(* -------------------------------- C1 ----------------------------------- *)

\* C1: after any sequence of public operations on a valid handle, called with
\* any arguments (negative and too-large indexes included), the metadata
\* satisfies 0 <= length and length * element_size <= capacity - header_size.
\* Refuted: vvectorRemoveAt(vec, -1) passes index_is_invalid (which only
\* tests index >= length) and decrements length below zero.
C1_LengthWithinCapacity ==
    (IsValid /\ pc = "run") =>
        /\ 0 <= meta.length
        /\ meta.length * ElementSize <= meta.capacity - HeaderSize

(* -------------------------------- C2 ----------------------------------- *)

\* C2: when insert_at or push_back runs on an exactly-full container and the
\* reallocate function returns null, the call returns a failure, the handle
\* still refers to the original buffer, and length, capacity and all elements
\* are unchanged.
\* Refuted: add_page_if_needed stores the null in *vec and its result is
\* ignored; the insertion goes on and reads the metadata through the null.
C2_InsertOomAborts ==
    [][(/\ IsValid
        /\ pc = "run"
        /\ ElementSize > 0
        /\ op'.name \in {"insert_at", "push_back"}
        /\ 0 <= op'.index /\ op'.index <= meta.length
        /\ op'.value # NullValue
        /\ opcalls' # <<>>
        /\ ~opcalls'[1].ok)
       => (/\ pc' = "run"
           /\ Failed(res')
           /\ bufptr' = bufptr
           /\ meta' = meta
           /\ data' = data)]_vars

(* -------------------------------- C3 ----------------------------------- *)

\* C3: insert_at(index, value) with index > length, or with a null value,
\* returns a failure, leaves length, capacity, the buffer and every element
\* unchanged and invokes no allocator function, in every container state,
\* the exactly-full one included.
\* Refuted: vvectorInsertValueAt calls add_page_if_needed before it looks at
\* its arguments, so a rejected call on a full container still reallocates
\* (stated here for the calls whose reallocation, if any, succeeds; the
\* failing reallocation is C2's case).
C3_RejectedInsertChangesNothing ==
    [][(/\ IsValid
        /\ pc = "run"
        /\ ElementSize > 0
        /\ op'.name = "insert_at"
        /\ (op'.index > meta.length \/ op'.value = NullValue)
        /\ \A i \in 1..Len(opcalls') : opcalls'[i].ok)
       => (/\ pc' = "run"
           /\ Failed(res')
           /\ opcalls' = <<>>
           /\ bufptr' = bufptr
           /\ buf' = buf
           /\ meta' = meta
           /\ data' = data)]_vars

(* -------------------------------- C4 ----------------------------------- *)

\* The container carries a descriptor that was supplied with all three
\* functions non-null.
FullDescriptor == alloc.malloc_fn \in UserFns /\ alloc.free_fn \in UserFns
                  /\ alloc.realloc_fn \in UserFns

\* C4: for a container created with a descriptor whose three functions are
\* non-null, for every element_size >= 0, every allocator call (both
\* construction allocations, every reallocation, both destruction releases)
\* is a call to a descriptor function with the descriptor's ctx; the library
\* defaults are never called.
\* Refuted: vec_new_ stores -sizeof_type as the flag, which for sizeof_type 0
\* is not negative, so has_custom_alloc is false for that container.
C4_CustomAllocatorRouting ==
    FullDescriptor =>
        \A i \in 1..Len(opcalls) :
            /\ opcalls[i].fn \in {alloc.malloc_fn, alloc.free_fn, alloc.realloc_fn}
            /\ opcalls[i].fn \notin LibFns
            /\ opcalls[i].ctx = alloc.ctx

(* -------------------------------- C5 ----------------------------------- *)

\* What each operation returns for an invalid handle.
InvalidResult(name) ==
    CASE name \in {"get", "get_front", "get_back"} -> NullRes
      [] name = "length" -> IntRes(0)
      [] name = "is_empty" -> IntRes(1)
      [] OTHER -> IntRes(VEC_ENOVEC)

\* destroy has returned success on this handle earlier, and a later call has
\* been made.
AfterDestroy == hnd.st = "freed" /\ ~(op.name = "destroy" /\ Ok(res))

\* C5: after destroy(handle) returned success, every later operation on that
\* handle reports failure without reading memory that destroy released, and
\* none makes the handle valid again.
\* Refuted: vvectorFree releases the handle block and can only null its own
\* copy of vec; the "!*vec" test of every later call reads the released block.
C5_DestroyedHandleStaysInvalid ==
    AfterDestroy =>
        /\ fault = "none"
        /\ pc = "run"
        /\ res = InvalidResult(op.name)
        /\ ~IsValid

(* -------------------------------- C6 ----------------------------------- *)

\* C6: when the reallocate function returns null during reserve or
\* shrink_to_fit, the call returns a failure, the handle still refers to the
\* original buffer with length, capacity and elements unchanged, and a later
\* destroy releases the buffer and the handle.
\* Refuted: both functions assign the result of the reallocation to *vec
\* before testing it, so the handle loses the buffer; destroy then reports an
\* invalid handle and releases nothing.
C6_FailedReallocKeepsBuffer ==
    [][/\ (/\ op'.name \in {"reserve", "shrink_to_fit"}
           /\ opcalls' # <<>>
           /\ ~opcalls'[1].ok)
          => (/\ Failed(res')
              /\ bufptr' = bufptr
              /\ meta' = meta
              /\ data' = data)
       /\ (/\ op'.name = "destroy"
           /\ pc = "run"
           /\ vec # NULL /\ hnd.st = "live" /\ buf.st = "live")
          => (/\ Ok(res')
              /\ buf'.st = "freed"
              /\ hnd'.st = "freed")]_vars

(* -------------------------------- C8 ----------------------------------- *)

\* C8: after any sequence of pushes, inserts, reserves and removes with
\* element_size > 0, a successful shrink_to_fit leaves
\* (capacity - header_size) / element_size / 32 equal to ceil(length / 32),
\* leaves length and every element unchanged, and reallocates nothing when
\* the allocated page count already equals ceil(length / 32).
\* Refuted through C1: once a remove_at(-1) has driven length to -1,
\* nr_pages_used is 1 (C division rounds -1/32 towards zero and the
\* remainder is non-zero) and shrink_to_fit grows an empty buffer to a page.
C8_ShrinkToFitMinimal ==
    [][(/\ IsValid
        /\ pc = "run"
        /\ ElementSize > 0
        /\ op'.name = "shrink_to_fit"
        /\ pc' = "run"
        /\ Ok(res'))
       => (/\ CapacityInElements(meta', HeaderSize, ElementSize) \div 32
                = Ceil(meta.length, 32)
           /\ meta'.length = meta.length
           /\ Live(data', meta.length) = Live(data, meta.length)
           /\ (CapacityInElements(meta, HeaderSize, ElementSize) \div 32
                 = Ceil(meta.length, 32)) => opcalls' = <<>>)]_vars

(* ------------------------- scripted callers ---------------------------- *)

\* The container is valid in the spec's sense: the handle holds a live
\* buffer whose metadata is consistent.
ValidContainer ==
    /\ IsValid
    /\ pc = "run"
    /\ 0 <= meta.length
    /\ meta.length * ElementSize <= meta.capacity - HeaderSize

\* A free caller: any public call with any argument.
FreeCaller == phase = "free" /\ Next

\* What the caller reads through the pointer r that a get returned.
Deref(r, d) == IF r.t = "slot" /\ r.v >= 0 /\ r.v < Len(d) THEN d[r.v + 1] ELSE Uninit

Reverse(q) == [i \in 1..Len(q) |-> q[Len(q) + 1 - i]]

\* --- reserve(n), then n push_back calls (after any calls) ---

ReserveThenPush ==
    /\ phase = "free"
    /\ ValidContainer
    /\ \E n \in CountArgs :
          /\ n >= 0
          /\ vvectorReserve(n, TRUE)
          /\ Ok(res')
          /\ cnt' = n
    /\ phase' = "reserved"
    /\ UNCHANGED <<todo, out>>

PushReserved ==
    /\ phase = "reserved"
    /\ cnt > 0
    /\ vvectorPushBack(1, TRUE)
    /\ cnt' = cnt - 1
    /\ UNCHANGED <<phase, todo, out>>

ReserveNext == FreeCaller \/ ReserveThenPush \/ PushReserved

ReserveSpec == Init /\ [][ReserveNext]_vars

\* --- push v0..v(k-1), then k times get_back and remove_back ---

\* The values 1..k, as the demo's create_vector_of_100_numbers pushes its
\* loop counter.
RoundTripInit ==
    /\ vec = NULL
    /\ hnd = NoBlock
    /\ bufptr = NULL
    /\ buf = NoBlock
    /\ meta = NoMeta
    /\ alloc = NoAlloc
    /\ data = <<>>
    /\ op = Call("none", 0, 0, 0)
    /\ res = NoRes
    /\ opcalls = <<>>
    /\ fault = "none"
    /\ pc = "run"
    /\ phase = "rt_create"
    /\ todo \in {[i \in 1..k |-> i] : k \in 0..ScriptLen}
    /\ cnt = 0
    /\ out = <<>>

RoundTripCreate ==
    /\ phase = "rt_create"
    /\ \E s \in {0, MaxElemSize} :
          \/ vec_new_(s, FALSE, NoAlloc, TRUE, TRUE)
          \/ \E a \in AllocArgs : vec_new_(s, TRUE, a, TRUE, TRUE)
    /\ phase' = IF todo = <<>> THEN "rt_done" ELSE "rt_push"
    /\ UNCHANGED <<todo, cnt, out>>

RoundTripPush ==
    /\ phase = "rt_push"
    /\ vvectorPushBack(todo[cnt + 1], TRUE)
    /\ cnt' = cnt + 1
    /\ phase' = IF ~Ok(res') THEN "rt_failed"
                ELSE IF cnt + 1 = Len(todo) THEN "rt_get" ELSE "rt_push"
    /\ UNCHANGED <<todo, out>>

RoundTripGet ==
    /\ phase = "rt_get"
    /\ vvectorGetBack
    /\ out' = Append(out, Deref(res', data))
    /\ phase' = IF res'.t # "slot" THEN "rt_failed" ELSE "rt_remove"
    /\ UNCHANGED <<todo, cnt>>

RoundTripRemove ==
    /\ phase = "rt_remove"
    /\ vvectorRemoveBack
    /\ cnt' = cnt - 1
    /\ phase' = IF ~Ok(res') THEN "rt_failed"
                ELSE IF cnt - 1 = 0 THEN "rt_done" ELSE "rt_get"
    /\ UNCHANGED <<todo, out>>

RoundTripNext == RoundTripCreate \/ RoundTripPush \/ RoundTripGet \/ RoundTripRemove

RoundTripSpec == RoundTripInit /\ [][RoundTripNext]_vars

\* --- insert_at(i, v), then remove_at(i) (after any calls) ---

InsertThenRemove ==
    /\ phase = "free"
    /\ ValidContainer
    /\ \E i \in 0..meta.length, v \in Values, ok \in GrowthOutcomes :
          /\ vvectorInsertValueAt(i, v, ok)
          /\ Ok(res')
          /\ todo' = <<i>>
    /\ cnt' = meta.length
    /\ out' = IF ElementSize > 0 THEN Live(data, meta.length) ELSE <<>>
    /\ phase' = "inserted"

RemoveInserted ==
    /\ phase = "inserted"
    /\ vvectorRemoveAt(todo[1])
    /\ phase' = "removed"
    /\ UNCHANGED <<todo, cnt, out>>

InsertRemoveNext == FreeCaller \/ InsertThenRemove \/ RemoveInserted

InsertRemoveSpec == Init /\ [][InsertRemoveNext]_vars

(* -------------------------------- C7 ----------------------------------- *)

\* C7: for every valid container state and every n >= 0, after reserve(n)
\* returned ok the next n push_back calls (non-null values) all return ok and
\* none of them invokes an allocator function.
\* Refuted: for element_size 0 (which vec_new_ accepts) is_full compares
\* capacity with length * 0 + header, so the buffer is "full" at every push
\* and each push_back after the reserve calls the reallocate function.
C7_ReservedPushesDoNotAllocate ==
    [][(phase = "reserved" /\ phase' = "reserved" /\ op'.name = "push_back")
       => (/\ pc' = "run"
           /\ Ok(res')
           /\ opcalls' = <<>>)]_vars

(* -------------------------------- C9 ----------------------------------- *)

\* C9: on a freshly created container with all allocations succeeding,
\* pushing v0..v(k-1) and then k times reading get_back and calling
\* remove_back yields v(k-1)..v0 in that order and leaves the container
\* empty, for every k >= 0, those crossing a page boundary included.  (Every
\* call of the run succeeds, and the run goes through to its end.)
C9_PushPopRoundTrip ==
    /\ pc = "run"
    /\ fault = "none"
    /\ phase # "rt_failed"
    /\ phase # "rt_done" => ENABLED RoundTripNext
    /\ phase = "rt_done" =>
          /\ meta.length = 0
          /\ Len(out) = Len(todo)
          /\ ElementSize > 0 => out = Reverse(todo)

\* A run of more than a page of elements has been pushed and popped.
C9_Witness ==
    /\ phase = "rt_done"
    /\ Len(todo) > NR_ELEM_IN_PAGE
    /\ ElementSize > 0
    /\ Len(out) = Len(todo)

(* -------------------------------- C10 ---------------------------------- *)

\* C10: for every valid container, every i with 0 <= i <= length and every
\* non-null v, a successful insert_at(i, v) immediately followed by
\* remove_at(i) restores the prior length and leaves the full element
\* sequence equal to the one before the insert.
C10_InsertRemoveInverse ==
    /\ phase = "inserted" => ENABLED RemoveInserted
    /\ phase = "removed" =>
          /\ pc = "run"
          /\ Ok(res)
          /\ meta.length = cnt
          /\ ElementSize > 0 => Live(data, meta.length) = out

\* An insert in front of existing elements (they were shifted up and back
\* down), then the remove.
C10_Witness ==
    /\ phase = "removed"
    /\ ElementSize > 0
    /\ cnt >= 1
    /\ todo[1] < cnt
    /\ Ok(res)

(* ----------------------- sequences of elements ------------------------- *)

\* The sequence q without its element at position i (counted from 0).
DeleteAt(q, i) == [j \in 1..(Len(q) - 1) |-> IF j <= i THEN q[j] ELSE q[j + 1]]

\* The sequence q with v put in front of its element at position i (counted
\* from 0; i = Len(q) appends).
InsertInto(q, i, v) ==
    [j \in 1..(Len(q) + 1) |-> IF j <= i THEN q[j] ELSE IF j = i + 1 THEN v ELSE q[j - 1]]

\* The live elements of the current state; zero-size elements have no bytes,
\* so only their number counts.
Elements == IF ElementSize > 0 THEN Live(data, meta.length) ELSE <<>>
ElementsAfter == IF ElementSize > 0 THEN Live(data', meta'.length) ELSE <<>>

(* -------------------------------- C11 ---------------------------------- *)

AllocationsSucceed == \A k \in 1..Len(opcalls') : opcalls'[k].ok

\* C12: for every valid container, every i with 0 <= i <= length and every
\* non-null v, when any needed reallocation succeeds insert_at(i, v) returns
\* ok, length increases by one, element i equals v, the elements formerly at
\* 0..i-1 are unchanged and each element formerly at j >= i is now at j+1.
C12_InsertAtOpensGap ==
    [][(/\ ValidContainer
        /\ op'.name = "insert_at"
        /\ op'.index >= 0
        /\ op'.index <= meta.length
        /\ op'.value # NullValue
        /\ AllocationsSucceed)
       => (/\ pc' = "run"
           /\ Ok(res')
           /\ meta'.length = meta.length + 1
           /\ ElementSize > 0 =>
                  ElementsAfter = InsertInto(Elements, op'.index, op'.value))]_vars

\* An insert_at in front of an existing element has returned ok.
C12_Witness ==
    /\ pc = "run"
    /\ op.name = "insert_at"
    /\ Ok(res)
    /\ ElementSize > 0
    /\ op.index >= 0
    /\ op.index + 1 < meta.length
    /\ data[op.index + 1] = op.value
    /\ data[op.index + 2] # Uninit

(* -------------------------------- C13 ---------------------------------- *)

C14_NegativeIndexRejected ==
    [][(/\ ValidContainer
        /\ ElementSize > 0
        /\ op'.name \in {"get", "write_at", "insert_at", "remove_at"}
        /\ op'.index < 0)
       => (/\ pc' = "run"
           /\ res' = IF op'.name = "get" THEN NullRes ELSE IntRes(VEC_EBADINDEX)
           /\ UNCHANGED <<meta, data>>)]_vars

(* -------------------------------- C15 ---------------------------------- *)

\* C15: remove_back on a valid container with length 0 (a freshly created,
\* never-pushed one included) returns an empty-container result that differs
\* from success and from the bad-index result that remove_at returns for an
\* out-of-range index, and leaves length, capacity and the buffer unchanged.
\* Refuted: vvectorRemoveBack returns the literal 2 on an empty container,
\* which is the value of VEC_EBADINDEX.
C15_EmptyRemoveBackDistinct ==
    [][(ValidContainer /\ meta.length = 0 /\ op'.name = "remove_back")
       => (/\ pc' = "run"
           /\ res'.t = "int"
           /\ res' # IntRes(0)
           /\ res' # IntRes(VEC_EBADINDEX)
           /\ UNCHANGED <<meta, data, buf, bufptr>>)]_vars

(* -------------------------------- C16 ---------------------------------- *)

\* C16: the results of reserve and shrink_to_fit distinguish their failure
\* outcomes: an invalid handle, a negative reserve count and a failed
\* reallocation each yield a different non-zero result.
\* Stated for a call on a valid handle that fails for its argument or for the
\* allocator: its result is non-zero and is not the invalid-handle result.
\* Refuted: vvectorReserve returns 1 for a negative count and VEC_ENOVEC for a
\* failed reallocation, vvectorShrinkToFit returns 1 for a failed
\* reallocation, and VEC_ENOVEC, the invalid-handle result, is 1.
C16_FailureResultsDistinct ==
    [][(/\ IsValid
        /\ pc = "run"
        /\ op'.name \in {"reserve", "shrink_to_fit"}
        /\ pc' = "run"
        /\ (op'.n < 0 \/ ~AllocationsSucceed))
       => (/\ Failed(res')
           /\ res' # InvalidResult(op'.name))]_vars

(* -------------------------------- C17 ---------------------------------- *)

\* --- push_back(v), and insert_at(length, v) from the same state ---

\* The container as a call finds it, and what a call leaves and returns.
Container ==
    [vec |-> vec, hnd |-> hnd, bufptr |-> bufptr, buf |-> buf, meta |-> meta,
     alloc |-> alloc, data |-> data]
Outcome ==
    [res |-> res, pc |-> pc, fault |-> fault, bufptr |-> bufptr, meta |-> meta,
     data |-> data]

\* push_back(v) in any state, with either allocator outcome; the state it
\* started from is kept in todo, v and the allocator outcome in cnt and out.
PushFirst ==
    /\ phase = "free"
    /\ \E v \in ValueArgs, ok \in BOOLEAN :
          /\ vvectorPushBack(v, ok)
          /\ cnt' = v
          /\ out' = <<ok>>
    /\ todo' = <<Container>>
    /\ phase' = "pushed"

\* The same state again (a second container brought there by the same
\* calls); what push_back left and returned is kept in out.
SameStateAgain ==
    /\ phase = "pushed"
    /\ vec' = todo[1].vec
    /\ hnd' = todo[1].hnd
    /\ bufptr' = todo[1].bufptr
    /\ buf' = todo[1].buf
    /\ meta' = todo[1].meta
    /\ alloc' = todo[1].alloc
    /\ data' = todo[1].data
    /\ pc' = "run"
    /\ fault' = "none"
    /\ out' = <<out[1], Outcome>>
    /\ phase' = "again"
    /\ UNCHANGED <<op, res, opcalls, todo, cnt>>

\* insert_at(length, v) with the same value and the same allocator outcome.
InsertSecond ==
    /\ phase = "again"
    /\ vvectorInsertValueAt(IF IsValid THEN meta.length ELSE 0, cnt, out[1])
    /\ phase' = "compared"
    /\ UNCHANGED <<todo, cnt, out>>

PushInsertNext == FreeCaller \/ PushFirst \/ SameStateAgain \/ InsertSecond

PushInsertSpec == Init /\ [][PushInsertNext]_vars

\* The first length slots of the element region d.
LiveOf(d, m) ==
    [i \in 1..(IF m.length < Len(d) THEN m.length ELSE Len(d)) |-> d[i]]

\* C17: for every container state (valid or invalid handle, exactly full or
\* not) and every value (a null value reference included), push_back(value)
\* returns the same result and leaves the same length, capacity and element
\* sequence as insert_at(length, value) run from the same state with the
\* same allocator outcomes.
\* Stated for the runs in which both calls return without a fault.
\* Refuted: vvectorPushBack tests the value before it calls
\* vvectorInsertValueAt, which grows the buffer before it tests the value
\* (C3): with a null value on an exactly full container push_back returns
\* VEC_ENOVALUE and changes nothing, insert_at(length, NULL) returns
\* VEC_ENOVALUE after raising the capacity by a page.
C17_PushBackIsInsertAtLength ==
    (/\ phase = "compared"
     /\ pc = "run"
     /\ fault = "none"
     /\ out[2].pc = "run"
     /\ out[2].fault = "none")
    => (/\ res = out[2].res
        /\ meta.length = out[2].meta.length
        /\ meta.capacity = out[2].meta.capacity
        /\ LiveOf(data, meta) = LiveOf(out[2].data, out[2].meta))

(* -------------------------------- C18 ---------------------------------- *)

\* C18: for every valid container, every i with 0 <= i < length and every
\* non-null v, write_at(i, v) returns ok, makes element i equal to v and
\* leaves length, capacity, the buffer identity and every other element
\* unchanged, invoking no allocator function; with a null value it returns
\* the null-value result and changes nothing.
C18_WriteAtFrame ==
    [][(/\ ValidContainer
        /\ op'.name = "write_at"
        /\ op'.index >= 0
        /\ op'.index < meta.length)
       => (/\ pc' = "run"
           /\ opcalls' = <<>>
           /\ UNCHANGED <<vec, hnd, bufptr, buf, meta, alloc>>
           /\ IF op'.value # NullValue
              THEN /\ Ok(res')
                   /\ ElementSize > 0 =>
                          data' = [data EXCEPT ![op'.index + 1] = op'.value]
                   /\ ElementSize = 0 => data' = data
              ELSE /\ res' = IntRes(VEC_ENOVALUE)
                   /\ data' = data)]_vars

\* A write_at has put a value next to an element that holds the other value.
C18_Witness ==
    /\ pc = "run"
    /\ op.name = "write_at"
    /\ Ok(res)
    /\ ElementSize > 0
    /\ meta.length >= 2
    /\ op.index >= 0
    /\ op.index < meta.length
    /\ data[op.index + 1] = op.value
    /\ \E j \in 1..meta.length : data[j] \in Values \ {op.value}

(* -------------------------------- C19 ---------------------------------- *)

\* C19: for every valid container and every n >= 0, a successful reserve(n)
\* sets capacity to exactly old capacity + ceil(n / 32) * 32 * element_size
\* (on top of the current capacity, whatever free slots exist already) and
\* leaves length and all live elements unchanged.
C19_ReserveAddsPages ==
    [][(/\ ValidContainer
        /\ op'.name = "reserve"
        /\ op'.n >= 0
        /\ pc' = "run"
        /\ Ok(res'))
       => (/\ meta'.capacity
                = meta.capacity + Ceil(op'.n, 32) * 32 * ElementSize
           /\ meta'.length = meta.length
           /\ meta'.element_size = meta.element_size
           /\ ElementsAfter = Elements)]_vars

\* A reserve(1) on a container that holds an element and has free slots has
\* added a page all the same.
C19_Witness ==
    /\ pc = "run"
    /\ op.name = "reserve"
    /\ op.n = 1
    /\ Ok(res)
    /\ ElementSize > 0
    /\ meta.length >= 1
    /\ data[1] # Uninit
    /\ Pages(meta) = 2

(* -------------------------------- C20 ---------------------------------- *)

\* C20: after any sequence of public operations whose allocations succeed,
\* on a container with element_size > 0, capacity - header_size equals
\* k * 32 * element_size for some integer k >= 0.
\* Refuted through C14: write_at(-1, v) passes the index check and copies v
\* over the upper bytes of the element_size field, after which the capacity
\* is no page multiple of the element size the metadata shows.
C20_CapacityIsPageMultiple ==
    (IsValid /\ pc # "undefined" /\ ElementSize > 0)
    => (/\ meta.capacity >= HeaderSize
        /\ (meta.capacity - HeaderSize) % (NR_ELEM_IN_PAGE * ElementSize) = 0)

(* -------------------------------- C21 ---------------------------------- *)

\* --- n = length(h); while (!is_empty(h)) remove_back(h); (after any calls,
\* --- on a handle that was not destroyed) ---

DrainLength ==
    /\ phase = "free"
    /\ vec = NULL \/ hnd.st = "live"
    /\ vvectorGetLength
    /\ todo' = <<res'.v>>
    /\ cnt' = 0
    /\ phase' = "drain_test"
    /\ UNCHANGED out

DrainTest ==
    /\ phase = "drain_test"
    /\ vvectorIsEmpty
    /\ phase' = IF res' = IntRes(1) THEN "drained" ELSE "drain_remove"
    /\ UNCHANGED <<todo, cnt, out>>

DrainRemove ==
    /\ phase = "drain_remove"
    /\ vvectorRemoveBack
    /\ cnt' = cnt + 1
    /\ phase' = "drain_test"
    /\ UNCHANGED <<todo, out>>

DrainNext == FreeCaller \/ DrainLength \/ DrainTest \/ DrainRemove

DrainSpec == Init /\ [][DrainNext]_vars

\* The loop is running or has ended.
InDrain == phase \in {"drain_test", "drain_remove", "drained"}

\* C21: length() returns 0 and is_empty() returns true for a null handle and
\* for a handle whose buffer pointer is null, and the loop 'while not
\* is_empty(h): remove_back(h)' terminates for every handle: after zero
\* iterations for a null/invalid handle, and after exactly length iterations
\* for a valid container, each remove_back returning ok and the container
\* ending with length 0.
\* Refuted through C1: once remove_at(-1) has left length -1, is_empty
\* returns false and the loop enters an iteration that the length does not
\* account for; each remove_back then returns ok and moves the length further
\* from 0.
C21_DrainLoopTerminates ==
    InDrain =>
       /\ pc = "run"
       /\ ~IsValid => (todo[1] = 0 /\ phase # "drain_remove")
       /\ phase = "drain_remove" => cnt < todo[1]
       /\ (phase = "drain_test" /\ cnt > 0) => Ok(res)
       /\ phase = "drained" =>
             /\ cnt = todo[1]
             /\ res = IntRes(1)
             /\ IsValid => meta.length = 0

(* -------------------------------- C22 ---------------------------------- *)

\* C22: create(element_size, allocator) returns an invalid handle without
\* allocating for every element_size < 0; for every element_size >= 0 with
\* allocations succeeding it returns a valid container with length 0 and
\* capacity equal to header_size, whose stored element_size has absolute
\* value element_size and is recognised as carrying an embedded descriptor
\* exactly when a descriptor was supplied.
\* Refuted: with a descriptor and element_size 0 the stored field is -0 = 0,
\* which is not negative: the container is not recognised as carrying the
\* descriptor that was copied into it, and its header size is taken to be 24
\* while its capacity is 56 (the root of C4).
C22_CreateResult ==
    [][(op'.name = "create" /\ pc' = "run")
       => IF op'.n < 0
          THEN /\ res' = NullRes
               /\ opcalls' = <<>>
               /\ UNCHANGED <<vec, hnd, bufptr, buf>>
          ELSE AllocationsSucceed =>
                  /\ res' = HandleRes
                  /\ IsValid'
                  /\ meta'.length = 0
                  /\ vec_get_element_size(meta') = op'.n
                  /\ has_custom_alloc(meta') <=> (alloc' # NoAlloc)
                  /\ meta'.capacity = getLengthOfMetadata(meta')]_vars

(* -------------------------------- C23 ---------------------------------- *)

\* The caller of demo.c: it fills in a descriptor of its own, creates the
\* container with it and is afterwards free to change or discard its
\* descriptor.  out keeps the descriptor as it was supplied, todo is the
\* caller's own struct.
CreateWithDescriptor ==
    /\ phase = "free"
    /\ \E s \in SizeArgs \cap Nat, a \in AllocArgs :
          /\ vec_new_(s, TRUE, a, TRUE, TRUE)
          /\ out' = <<a>>
          /\ todo' = <<a>>
    /\ UNCHANGED <<phase, cnt>>

\* The caller clears every field of its struct vvectorAlloc.
MutateDescriptor ==
    /\ phase = "free"
    /\ todo # <<>>
    /\ todo # <<NoAlloc>>
    /\ todo' = <<NoAlloc>>
    /\ UNCHANGED <<vec, hnd, bufptr, buf, meta, alloc, data, op, res, opcalls,
                   fault, pc, phase, cnt, out>>

DescriptorNext == FreeCaller \/ CreateWithDescriptor \/ MutateDescriptor
DescriptorSpec == Init /\ [][DescriptorNext]_vars

\* The functions and the ctx fixed when the container was created: each
\* function of the supplied descriptor, or the library default where it was
\* null.
FixedAtCreation == Normalised(out[1])

\* C23: the allocate, release and reallocate functions and the ctx a
\* container uses are fixed at creation, each function being the supplied
\* one if non-null and the library default otherwise; whatever the caller
\* does to its descriptor afterwards, the container keeps using them: every
\* allocator call of an operation is made with them.
\* Refuted through C22: created with element_size 0 the container is not
\* recognised as carrying its descriptor and uses the library defaults with a
\* null ctx.
C23_AllocatorFixedAtCreation ==
    (out # <<>> /\ IsValid /\ pc = "run") =>
       /\ get_malloc(meta, alloc) = FixedAtCreation.malloc_fn
       /\ get_free(meta, alloc) = FixedAtCreation.free_fn
       /\ get_realloc(meta, alloc) = FixedAtCreation.realloc_fn
       /\ get_ctx(meta, alloc) = FixedAtCreation.ctx
       /\ \A k \in 1..Len(opcalls) :
             /\ opcalls[k].fn \in {FixedAtCreation.malloc_fn, FixedAtCreation.free_fn,
                                   FixedAtCreation.realloc_fn}
             /\ opcalls[k].ctx = FixedAtCreation.ctx

(* -------------------------------- C24 ---------------------------------- *)

\* A null handle, or a handle whose buffer reference is null.
InvalidHandle == ~IsValid /\ (vec = NULL \/ hnd.st = "live")

\* C24: on every valid non-empty container get_front returns what get(0)
\* returns and get_back what get(length - 1) returns, the slot of the first
\* and of the last live element; on an empty container and on a null or
\* invalid handle both return none; neither touches the container.
C24_FrontBackAreGets ==
    [][(/\ op'.name \in {"get_front", "get_back"}
        /\ ValidContainer \/ (pc = "run" /\ InvalidHandle))
       => (/\ pc' = "run"
           /\ fault' = "none"
           /\ UNCHANGED <<vec, hnd, bufptr, buf, meta, alloc, data>>
           /\ IF IsValid /\ meta.length > 0
              THEN LET i == IF op'.name = "get_front" THEN 0 ELSE meta.length - 1
                   IN /\ res' = GetAt(meta, i)
                      /\ res' = SlotRes(i)
                      /\ ElementSize > 0 => Deref(res', data') = Elements[i + 1]
              ELSE res' = NullRes)]_vars

\* A get_back on a container of two elements has returned the slot of the
\* second one.
C24_Witness ==
    /\ pc = "run"
    /\ IsValid
    /\ op.name = "get_back"
    /\ meta.length = 2
    /\ res = SlotRes(1)
    /\ ElementSize > 0
    /\ Deref(res, data) # Uninit

(* -------------------------------- C25 ---------------------------------- *)

\* length == capacity_in_elements at entry.  A container of zero-size
\* elements that holds an element is not exactly full, whether its region is
\* taken to hold no slot or any number of them.
FullAtEntry ==
    /\ ElementSize > 0
    /\ meta.length = CapacityInElements(meta, HeaderSize, ElementSize)

\* C25: a call to insert_at or push_back (with a value) on a valid container
\* invokes the reallocate function once when length == capacity_in_elements
\* at entry, requesting capacity + 32 * element_size bytes and, on success,
\* setting capacity to that value; when the container is not exactly full it
\* invokes no allocator function and leaves capacity unchanged.
\* Refuted through C7's bug: for element_size 0 is_full is true whatever the
\* length, and every insertion reallocates.
C25_GrowsExactlyWhenFull ==
    [][(/\ ValidContainer
        /\ ElementSize > 0 \/ meta.length > 0
        /\ op'.name \in {"insert_at", "push_back"}
        /\ op'.value # NullValue)
       => IF FullAtEntry
          THEN /\ Len(opcalls') = 1
               /\ opcalls'[1].fn = get_realloc(meta, alloc)
               /\ opcalls'[1].blk = "buf"
               /\ opcalls'[1].size = meta.capacity + 32 * ElementSize
               /\ opcalls'[1].ok => meta'.capacity = meta.capacity + 32 * ElementSize
          ELSE /\ opcalls' = <<>>
               /\ meta'.capacity = meta.capacity]_vars

(* -------------------------------- C26 ---------------------------------- *)

\* The handle of a created container that no destroy has released yet.
Undestroyed == vec # NULL /\ hnd.st = "live"

\* C26: destroy releases exactly two blocks, the buffer and the handle
\* indirection, each once, with the deallocate function and the ctx that the
\* buffer held before its release; after a create followed by any operations
\* and one destroy no allocation of the container remains outstanding.
\* Refuted through C6: after a failed reallocation in reserve or
\* shrink_to_fit the handle holds a null buffer reference, destroy returns
\* the invalid-handle result and releases neither block.
C26_DestroyReleasesBoth ==
    [][(op'.name = "destroy" /\ pc = "run" /\ Undestroyed)
       => (/\ pc' = "run"
           /\ Len(opcalls') = 2
           /\ opcalls'[1].blk = "buf"
           /\ opcalls'[2].blk = "hnd"
           /\ \A k \in 1..2 :
                 /\ opcalls'[k].fn = get_free(meta, alloc)
                 /\ opcalls'[k].ctx = get_ctx(meta, alloc)
           /\ buf.st = "live" /\ buf'.st = "freed"
           /\ hnd'.st = "freed")]_vars

(* -------------------------------- C27 ---------------------------------- *)

\* --- a caller whose elements are as wide as the metadata: it creates the
\* --- container, writes an element at index -1 and goes on to reserve or to
\* --- destroy ---

CreateWide ==
    /\ phase = "free"
    /\ vec_new_(SizeofMetadata, FALSE, NoAlloc, TRUE, TRUE)
    /\ phase' = "wide"
    /\ UNCHANGED <<todo, cnt, out>>

WriteWide ==
    /\ phase = "wide"
    /\ \E i \in {0 - 1, 0}, v \in Values : vvectorWriteValueAt(i, v)
    /\ phase' = "written"
    /\ UNCHANGED <<todo, cnt, out>>

ReserveWide ==
    /\ phase \in {"wide", "written"}
    /\ \E n \in {0, 1} : vvectorReserve(n, TRUE)
    /\ phase' = "reserved"
    /\ UNCHANGED <<todo, cnt, out>>

FreeWide ==
    /\ phase \in {"wide", "written", "reserved"}
    /\ vvectorFree
    /\ phase' = "destroyed"
    /\ UNCHANGED <<todo, cnt, out>>

WideNext == FreeCaller \/ CreateWide \/ WriteWide \/ ReserveWide \/ FreeWide
WideSpec == Init /\ [][WideNext]_vars

\* The byte size with which block blk was last allocated or reallocated.
SizeOfBlock(blk) == IF blk = "buf" THEN buf.size ELSE hnd.size

\* C27: the old_size passed to the reallocate function and the size passed to
\* the deallocate function equal the byte size with which the block was most
\* recently allocated or reallocated.
\* Refuted through C14: a write at index -1 of an element as wide as the
\* metadata replaces the capacity field, and the next reallocation or release
\* passes that field as the size of the block.
C27_AllocatorSeesTrueSizes ==
    [][pc = "run"
       => \A k \in 1..Len(opcalls') :
             /\ opcalls'[k].fn \in {lib_realloc, "user_realloc"}
                => opcalls'[k].old = SizeOfBlock(opcalls'[k].blk)
             /\ opcalls'[k].fn \in {lib_free, "user_free"}
                => opcalls'[k].size = SizeOfBlock(opcalls'[k].blk)]_vars

(* -------------------------------- C28 ---------------------------------- *)

\* C28: when create fails because one of its two allocations returns null,
\* it returns an invalid handle and leaves no allocation outstanding.
\* Refuted: when the allocation of the handle block fails vec_new_ returns
\* without releasing the buffer it has just allocated.
C28_FailedCreateLeavesNothing ==
    [][(/\ op'.name = "create"
        /\ \E k \in 1..Len(opcalls') : ~opcalls'[k].ok)
       => (/\ res' = NullRes
           /\ vec' = NULL
           /\ buf'.st # "live"
           /\ hnd'.st # "live")]_vars

(* -------------------------------- C29 ---------------------------------- *)

\* C29: on a container created with element_size 0 every public operation
\* completes and returns a result without an arithmetic fault; without a
\* failing allocation it completes without any fault.
\* Refuted: vvectorShrinkToFit computes the number of allocated pages by
\* dividing by the element size.
C29_ZeroSizeNoArithmeticFault ==
    [][(IsValid /\ pc = "run" /\ ElementSize = 0 /\ meta.length >= 0)
       => (/\ fault' # "div0"
           /\ AllocationsSucceed => pc' = "run")]_vars

====
